---- MODULE Spec2Model ----
(***************************************************************************)
(* Model of the pulse metrics engine of reposcan (cmd/reposcan/reposcan.go, *)
(* current variant, lines 446-1065): the 2-week pulse window generator,     *)
(* the per-window pull request classifier and the raw/normalised metrics.   *)
(*                                                                          *)
(* Instants are whole hours since Monday 2018-01-01 00:00 UTC.  A nil       *)
(* *time.Time is the value Nil.                                             *)
(***************************************************************************)
EXTENDS Integers, Sequences, FiniteSets, TLC

VARIABLES config, start, end, pulls, users, yearStart, weekStart, pulses, hits, pc, err,
          arg, ret, repos, startGraphs, ridx, mpc, clock, allUsers

vars == <<config, start, end, pulls, users, yearStart, weekStart, pulses, hits, pc, err,
          arg, ret, repos, startGraphs, ridx, mpc, clock, allUsers>>

\* the variables of main
mainVars == <<repos, startGraphs, ridx, mpc, clock, allUsers>>

(***************************************************************************)
(* Bounds of the explored inputs.                                           *)
(***************************************************************************)
\* calendar years 2019 .. 2018+NumYears supply the start instants
NumYears == 3
\* start days lie within this many days of a 1 January
BoundaryDays == 9
\* the longest scan, in weeks
SpanWeeks == 60

(***************************************************************************)
(* Calendar: time.Time.ISOWeek, time.Date and isoweek.StartTime.            *)
(***************************************************************************)
HoursPerDay == 24

Nil == -1

IsLeap(y) == (y % 4 = 0) /\ ((y % 100 # 0) \/ (y % 400 = 0))

DaysInYear(y) == IF IsLeap(y) THEN 366 ELSE 365

\* day number of 1 January of year y
RECURSIVE DaysBeforeYear(_)
DaysBeforeYear(y) == IF y <= 2018 THEN 0 ELSE DaysBeforeYear(y - 1) + DaysInYear(y - 1)

RECURSIVE YearFrom(_, _)
YearFrom(y, d) == IF d < DaysBeforeYear(y + 1) THEN y ELSE YearFrom(y + 1, d)

\* Gregorian year of a day number
YearOfDay(d) == YearFrom(2018, d)

\* 0 = Monday .. 6 = Sunday
Weekday(d) == d % 7

\* time.Time.ISOWeek: the year and the week of the Thursday of t's week
ISOWeek(t) ==
    LET day == t \div HoursPerDay
        thu == day - Weekday(day) + 3
        y   == YearOfDay(thu)
    IN  <<y, ((thu - DaysBeforeYear(y)) \div 7) + 1>>

\* time.Date(year, 12, 28, 0, 0, 0, 0, time.UTC)
Dec28(year) == (DaysBeforeYear(year + 1) - 4) * HoursPerDay

\* isoweek.StartTime: Monday 00:00 of the week holding 4 January, plus week-1 weeks
StartTime(wyear, week) ==
    LET jan4 == DaysBeforeYear(wyear) + 3
    IN  (jan4 - Weekday(jan4) + 7 * (week - 1)) * HoursPerDay

isoWeeks(year) == ISOWeek(Dec28(year))[2]

\* variants of isoWeekToPulseStart: no collapse; collapse forward; no parity test
isoWeekToPulseStart_Keep(week) == week

isoWeekToPulseStart_Up(week) == IF week % 2 = 0 THEN week + 1 ELSE week

isoWeekToPulseStart_Always(week) == week - 1

isoWeekToPulseStart(week) == IF week % 2 = 0 THEN week - 1 ELSE week

\* variant of nextPulseToIsoWeek: a roll-over that keeps the year
nextPulseToIsoWeek_SameYear(year, week) ==
    IF week + 2 > isoWeeks(year) THEN <<year, 1>> ELSE <<year, week + 2>>

nextPulseToIsoWeek(year, week) ==
    IF week + 2 > isoWeeks(year) THEN <<year + 1, 1>> ELSE <<year, week + 2>>

(***************************************************************************)
(* float32: int -> float32 conversion of a non-negative integer (24-bit     *)
(* significand, round to nearest, ties to even).                            *)
(***************************************************************************)
RECURSIVE F32Unit(_, _)
F32Unit(n, u) == IF n \div u < 16777216 THEN u ELSE F32Unit(n, 2 * u)

F32(n) ==
    LET u == F32Unit(n, 1)
        q == n \div u
        r == n % u
    IN  IF 2 * r < u THEN q * u
        ELSE IF 2 * r > u THEN (q + 1) * u
        ELSE IF q % 2 = 0 THEN q * u ELSE (q + 1) * u

(***************************************************************************)
(* Contributors and pull request classification.                            *)
(***************************************************************************)
\* strings.HasPrefix(login, "renovate"), over the logins of the model
HasPrefixRenovate(login) == login \in {"renovate", "renovate-bot"}

\* variant of userStep that does not keep the later end of the known interval
userStep_NoMax(cfg, us, r, now) ==
    IF r.Login = "" \/ HasPrefixRenovate(r.Login) THEN us
    ELSE LET end0   == IF r.MergedAt # Nil THEN r.MergedAt
                       ELSE IF r.ClosedAt # Nil THEN r.ClosedAt
                       ELSE now
             known  == r.Login \in DOMAIN us
             start1 == IF known /\ us[r.Login].Start < r.CreatedAt
                       THEN us[r.Login].Start ELSE r.CreatedAt
             end2   == IF now - end0 < cfg.Cooldown * 30 * 24 THEN now ELSE end0
         IN  [k \in DOMAIN us \cup {r.Login} |->
                 IF k = r.Login THEN [Start |-> start1, End |-> end2] ELSE us[k]]

\* one iteration of the loop of getUsers: the map after pull request r
userStep(cfg, us, r, now) ==
    IF r.Login = "" \/ HasPrefixRenovate(r.Login) THEN us
    ELSE LET end0   == IF r.MergedAt # Nil THEN r.MergedAt
                       ELSE IF r.ClosedAt # Nil THEN r.ClosedAt
                       ELSE now
             known  == r.Login \in DOMAIN us
             end1   == IF known /\ us[r.Login].End > end0 THEN us[r.Login].End ELSE end0
             start1 == IF known /\ us[r.Login].Start < r.CreatedAt
                       THEN us[r.Login].Start ELSE r.CreatedAt
             end2   == IF now - end1 < cfg.Cooldown * 30 * 24 THEN now ELSE end1
         IN  [k \in DOMAIN us \cup {r.Login} |->
                 IF k = r.Login THEN [Start |-> start1, End |-> end2] ELSE us[k]]

RECURSIVE getUsersFrom(_, _, _, _)
getUsersFrom(cfg, us, ps, now) ==
    IF ps = <<>> THEN us
    ELSE getUsersFrom(cfg, userStep(cfg, us, Head(ps), now), Tail(ps), now)

getUsers(cfg, ps, now) == getUsersFrom(cfg, << >>, ps, now)

\* variant of allowlistedUser without the rule that an empty list tracks everyone
allowlistedUser_NoEmptyRule(cfg, login) ==
    \E i \in 1..Len(cfg.Allowlist) : cfg.Allowlist[i] = login

allowlistedUser(cfg, login) ==
    \/ Len(cfg.Allowlist) = 0
    \/ \E i \in 1..Len(cfg.Allowlist) : cfg.Allowlist[i] = login

pulseContributors(cfg, us, s, e) ==
    Cardinality({k \in DOMAIN us :
                    /\ allowlistedUser(cfg, k)
                    /\ us[k].Start < e
                    /\ ~(us[k].End < s)})

\* variant of pullOf without the inner test of the close time (line 912): a
\* terminal pull request is reported in every window it overlaps
pullOf_NoCloseWindow(cfg, p, s, e) ==
    IF ~allowlistedUser(cfg, p.Login) THEN <<>>
    ELSE IF (p.ClosedAt = Nil \/ ~(p.ClosedAt < s)) /\ p.CreatedAt < e
    THEN IF p.State # "OPEN"
         THEN <<[Merged |-> p.MergedAt # Nil,
                 Closed |-> ~(p.MergedAt # Nil),
                 Open   |-> FALSE,
                 Lines  |-> p.Additions + p.Deletions]>>
         ELSE <<[Merged |-> FALSE,
                 Closed |-> FALSE,
                 Open   |-> TRUE,
                 Lines  |-> p.Additions + p.Deletions]>>
    ELSE <<>>

\* variant of pullOf that reports an open pull request only in the window
\* of its creation
pullOf_OpenOnce(cfg, p, s, e) ==
    IF ~allowlistedUser(cfg, p.Login) THEN <<>>
    ELSE IF (p.ClosedAt = Nil \/ ~(p.ClosedAt < s)) /\ p.CreatedAt < e
    THEN IF p.State # "OPEN"
         THEN IF ~(p.ClosedAt < s) /\ p.ClosedAt < e
              THEN <<[Merged |-> p.MergedAt # Nil,
                      Closed |-> ~(p.MergedAt # Nil),
                      Open   |-> FALSE,
                      Lines  |-> p.Additions + p.Deletions]>>
              ELSE <<>>
         ELSE IF ~(p.CreatedAt < s)
              THEN <<[Merged |-> FALSE,
                      Closed |-> FALSE,
                      Open   |-> TRUE,
                      Lines  |-> p.Additions + p.Deletions]>>
              ELSE <<>>
    ELSE <<>>

\* the body of the loop of pulsePulls for one pull request: the Pull it
\* appends, as a sequence of length 0 or 1
pullOf(cfg, p, s, e) ==
    IF ~allowlistedUser(cfg, p.Login) THEN <<>>
    ELSE IF (p.ClosedAt = Nil \/ ~(p.ClosedAt < s)) /\ p.CreatedAt < e
    THEN IF p.State # "OPEN"
         THEN IF ~(p.ClosedAt < s) /\ p.ClosedAt < e
              THEN <<[Merged |-> p.MergedAt # Nil,
                      Closed |-> ~(p.MergedAt # Nil),
                      Open   |-> FALSE,
                      Lines  |-> p.Additions + p.Deletions]>>
              ELSE <<>>
         ELSE <<[Merged |-> FALSE,
                 Closed |-> FALSE,
                 Open   |-> TRUE,
                 Lines  |-> p.Additions + p.Deletions]>>
    ELSE <<>>

\* p.ClosedAt.Before on a nil pointer (line 912)
pullPanics(cfg, p, s, e) ==
    /\ allowlistedUser(cfg, p.Login)
    /\ p.ClosedAt = Nil
    /\ p.CreatedAt < e
    /\ p.State # "OPEN"

\* per pull request, in list order, what pulsePulls appends for it
pullsByEntry(cfg, ps, s, e) == [k \in 1..Len(ps) |-> pullOf(cfg, ps[k], s, e)]

RECURSIVE Flatten(_)
Flatten(ss) == IF ss = <<>> THEN <<>> ELSE Head(ss) \o Flatten(Tail(ss))

pulsePulls(cfg, ps, s, e) == Flatten(pullsByEntry(cfg, ps, s, e))

(***************************************************************************)
(* Metrics.  A float32 quotient is kept as the pair of its operands.        *)
(***************************************************************************)
prSizeWeight(cfg, lines) ==
    IF lines > F32(cfg.High) THEN 3
    ELSE IF lines > F32(cfg.Low) THEN 2
    ELSE 1

RECURSIVE getOpen(_, _)
getOpen(cfg, pl) ==
    IF pl = <<>> THEN 0
    ELSE LET count == getOpen(cfg, SubSeq(pl, 1, Len(pl) - 1))
             p     == pl[Len(pl)]
         IN  IF p.Open THEN F32(count + 1) ELSE count

RECURSIVE getMerged(_, _)
getMerged(cfg, pl) ==
    IF pl = <<>> THEN 0
    ELSE LET count == getMerged(cfg, SubSeq(pl, 1, Len(pl) - 1))
             p     == pl[Len(pl)]
         IN  IF p.Merged THEN F32(count + 1) ELSE count

\* variant of openWeight that counts every open pull request once
RECURSIVE openWeight_Count(_, _)
openWeight_Count(cfg, pl) ==
    IF pl = <<>> THEN 0
    ELSE LET count == openWeight_Count(cfg, SubSeq(pl, 1, Len(pl) - 1))
             p     == pl[Len(pl)]
         IN  IF p.Open THEN F32(count + 1) ELSE count

RECURSIVE openWeight(_, _)
openWeight(cfg, pl) ==
    IF pl = <<>> THEN 0
    ELSE LET count == openWeight(cfg, SubSeq(pl, 1, Len(pl) - 1))
             p     == pl[Len(pl)]
         IN  IF p.Open THEN F32(count + prSizeWeight(cfg, F32(p.Lines))) ELSE count

RECURSIVE mergedWeight(_, _)
mergedWeight(cfg, pl) ==
    IF pl = <<>> THEN 0
    ELSE LET count == mergedWeight(cfg, SubSeq(pl, 1, Len(pl) - 1))
             p     == pl[Len(pl)]
         IN  IF p.Merged THEN F32(count + prSizeWeight(cfg, F32(p.Lines))) ELSE count

\* variant of getOpenNorm without the test for no contributors
getOpenNorm_NoGuard(cfg, pl, con) == [num |-> openWeight(cfg, pl), den |-> F32(con)]

getOpenNorm(cfg, pl, con) ==
    IF con = 0 THEN [num |-> 0, den |-> 1]
    ELSE [num |-> openWeight(cfg, pl), den |-> F32(con)]

getMergedNorm(cfg, pl, con) ==
    IF con = 0 THEN [num |-> 0, den |-> 1]
    ELSE [num |-> mergedWeight(cfg, pl), den |-> F32(con)]

(***************************************************************************)
(* The earlier variant of the metrics (lines 272-342).  The average size    *)
(* is the float32 quotient sum / count; it is kept as the pair <<sum,       *)
(* count>>, and <<0, 0>> is the NaN of an empty category.  For a count      *)
(* below 2^16 the rounded quotient is above an integer threshold up to 500  *)
(* exactly when sum > threshold * count; NaN is above nothing.              *)
(***************************************************************************)
pr_high == 500

pr_low == 50

oldPrSizeWeight(avg) ==
    IF avg[2] # 0 /\ avg[1] > pr_high * avg[2] THEN 3
    ELSE IF avg[2] # 0 /\ avg[1] > pr_low * avg[2] THEN 2
    ELSE 1

\* the loop of the earlier getOpen (cat = "Open") and getMerged: <<sum of
\* the sizes, count>> of the category
RECURSIVE oldTotals(_, _)
oldTotals(pl, cat) ==
    IF pl = <<>> THEN <<0, 0>>
    ELSE LET t == oldTotals(SubSeq(pl, 1, Len(pl) - 1), cat)
             p == pl[Len(pl)]
         IN  IF (IF cat = "Open" THEN p.Open ELSE p.Merged)
             THEN <<F32(t[1] + F32(p.Lines)), F32(t[2] + 1)>>
             ELSE t

oldValue(t, norm, con) ==
    IF ~norm THEN [num |-> t[2], den |-> 1]
    ELSE IF con = 0 THEN [num |-> 0, den |-> 1]
    ELSE [num |-> t[2] * oldPrSizeWeight(t), den |-> F32(con)]

oldGetOpen(pl, norm, con) == oldValue(oldTotals(pl, "Open"), norm, con)

oldGetMerged(pl, norm, con) == oldValue(oldTotals(pl, "Merged"), norm, con)

(***************************************************************************)
(* getPulses.  pc: "call" before the call, "loop" at the head of the for    *)
(* loop, "done" after the return, "panic" after a panic.  hits[i] is, for   *)
(* window i, what pulsePulls appended for each entry of pulls.              *)
(***************************************************************************)
NoErr == "none"
ErrEnd == "end time cannot before start"
ErrWeek == "iso week start must be 1 or higher"
ErrNil == "nil pointer dereference"

\* variant of pulseDays: every pulse taken to be two weeks long
pulseDays_Fixed(s, e) == 14

\* int(e.Sub(s).Hours()) / 24
pulseDays(s, e) == (e - s) \div HoursPerDay

\* end.Before(start), the guard of the first panic
endBeforeStart(s, e) == e < s

\* variant of pulsesDone: the loop also stops at a window that starts at end
pulsesDone_AtEnd(s, e) == s >= e

\* s.After(end), the exit test of the loop
pulsesDone(s, e) == s > e

getPulsesEnter ==
    /\ pc = "call"
    /\ IF endBeforeStart(start, end)
       THEN /\ pc' = "panic"
            /\ err' = ErrEnd
            /\ UNCHANGED <<yearStart, weekStart>>
       ELSE LET iw == ISOWeek(start)
                w  == isoWeekToPulseStart(iw[2])
            IN  IF w <= 0
                THEN /\ pc' = "panic"
                     /\ err' = ErrWeek
                     /\ UNCHANGED <<yearStart, weekStart>>
                ELSE /\ pc' = "loop"
                     /\ yearStart' = iw[1]
                     /\ weekStart' = w
                     /\ UNCHANGED err
    /\ UNCHANGED <<config, start, end, pulls, users, pulses, hits, arg, ret, mainVars>>

getPulsesLoop ==
    /\ pc = "loop"
    /\ LET s    == StartTime(yearStart, weekStart)
           nxt  == nextPulseToIsoWeek(yearStart, weekStart)
           e    == StartTime(nxt[1], nxt[2])
           d    == pulseDays(s, e)
           people == pulseContributors(config, users, s, e)
           pp   == pulsePulls(config, pulls, s, e)
       IN  IF pulsesDone(s, end)
           THEN /\ pc' = "done"
                /\ UNCHANGED <<yearStart, weekStart, pulses, hits, err>>
           ELSE IF \E k \in 1..Len(pulls) : pullPanics(config, pulls[k], s, e)
           THEN /\ pc' = "panic"
                /\ err' = ErrNil
                /\ UNCHANGED <<yearStart, weekStart, pulses, hits>>
           ELSE /\ pulses' = Append(pulses,
                                [Start        |-> s,
                                 End          |-> e,
                                 Days         |-> d,
                                 Contributors |-> people,
                                 PrOpen       |-> getOpen(config, pp),
                                 PrMerged     |-> getMerged(config, pp),
                                 PrOpenNorm   |-> getOpenNorm(config, pp, people),
                                 PrMergedNorm |-> getMergedNorm(config, pp, people)])
                /\ hits' = Append(hits, pullsByEntry(config, pulls, s, e))
                /\ yearStart' = nxt[1]
                /\ weekStart' = nxt[2]
                /\ UNCHANGED <<pc, err>>
    /\ UNCHANGED <<config, start, end, pulls, users, arg, ret, mainVars>>

\* a call prSizeWeight(config, float32(p.Lines)) with p.Lines = arg, as made
\* by getOpenNorm and getMergedNorm
prSizeWeightCall ==
    /\ pc = "weight"
    /\ ret' = prSizeWeight(config, F32(arg))
    /\ pc' = "done"
    /\ UNCHANGED <<config, start, end, pulls, users, yearStart, weekStart, pulses, hits,
                   err, arg, mainVars>>

\* the normalised values of one window under both variants: arg is the
\* classified pull requests and the contributor count of the window
normCall ==
    /\ pc = "norm"
    /\ ret' = [oldOpen   |-> oldGetOpen(arg.pl, TRUE, arg.con),
               newOpen   |-> getOpenNorm(config, arg.pl, arg.con),
               oldMerged |-> oldGetMerged(arg.pl, TRUE, arg.con),
               newMerged |-> getMergedNorm(config, arg.pl, arg.con)]
    /\ pc' = "done"
    /\ UNCHANGED <<config, start, end, pulls, users, yearStart, weekStart, pulses, hits,
                   err, arg, mainVars>>

\* a call of getUsers, one iteration of its loop at a time: arg is the index
\* of the next pull request, users the map built so far
getUsersStep ==
    /\ pc = "users"
    /\ arg <= Len(pulls)
    /\ users' = userStep(config, users, pulls[arg], clock)
    /\ arg' = arg + 1
    /\ UNCHANGED <<config, start, end, pulls, yearStart, weekStart, pulses, hits, pc, err,
                   ret, repos, startGraphs, ridx, mpc, clock, allUsers>>

getUsersReturn ==
    /\ pc = "users"
    /\ arg > Len(pulls)
    /\ ret' = users
    /\ pc' = "done"
    /\ UNCHANGED <<config, start, end, pulls, users, yearStart, weekStart, pulses, hits,
                   err, arg, mainVars>>

(***************************************************************************)
(* main.  mpc: "load" in the loop that reads the repositories, "generate"   *)
(* at the head of the loop that generates the pulses, "pulses" during the   *)
(* call of getPulses, "finished" after both loops, "exit" after an early    *)
(* return.  A repository is what repoPulls yields for it: ok (the key       *)
(* splits and the query succeeds), its creation instant and its pull        *)
(* requests; pulses and start are the fields main fills in.                 *)
(***************************************************************************)
\* variant of captureStart that keeps the creation instant of the last repository
captureStart_Last(sg, created) == created

\* lines 525-528: the earliest creation instant so far
captureStart(sg, created) == IF sg > created THEN created ELSE sg

\* time.Parse("2006-01-02", ...) of an accepted date: that day, 00:00 UTC
parseDay(g) == g.day * HoursPerDay

mainLoad ==
    /\ mpc = "load"
    /\ ridx <= Len(repos)
    /\ IF ~repos[ridx].ok
       THEN /\ mpc' = "exit"
            /\ UNCHANGED <<startGraphs, ridx>>
       ELSE /\ startGraphs' = captureStart(startGraphs, repos[ridx].created)
            /\ ridx' = ridx + 1
            /\ UNCHANGED mpc
    /\ UNCHANGED <<config, start, end, pulls, users, yearStart, weekStart, pulses, hits,
                   pc, err, arg, ret, repos, clock, allUsers>>

mainOverride ==
    /\ mpc = "load"
    /\ ridx > Len(repos)
    /\ IF config.Graphs # <<>> /\ ~config.Graphs[1].ok
       THEN /\ mpc' = "exit"
            /\ UNCHANGED <<startGraphs, ridx>>
       ELSE /\ startGraphs' = IF config.Graphs # <<>> THEN parseDay(config.Graphs[1])
                                                      ELSE startGraphs
            /\ ridx' = 1
            /\ mpc' = "generate"
    /\ UNCHANGED <<config, start, end, pulls, users, yearStart, weekStart, pulses, hits,
                   pc, err, arg, ret, repos, clock, allUsers>>

\* lines 541-551, up to the call of getPulses; the clock may have advanced
mainGenerate ==
    /\ mpc = "generate"
    /\ ridx <= Len(repos)
    /\ \E d \in {0, 2} : clock' = clock + d
    /\ end' = clock' + HoursPerDay
    /\ users' = getUsers(config, repos[ridx].prs, clock')
    /\ start' = startGraphs
    /\ pulls' = repos[ridx].prs
    /\ yearStart' = 0
    /\ weekStart' = 0
    /\ pulses' = <<>>
    /\ hits' = <<>>
    /\ pc' = "call"
    /\ err' = NoErr
    /\ mpc' = "pulses"
    /\ UNCHANGED <<config, arg, ret, repos, startGraphs, ridx, allUsers>>

\* lines 553-559, after getPulses has returned
mainStore ==
    /\ mpc = "pulses"
    /\ pc = "done"
    /\ allUsers' = [k \in DOMAIN allUsers \cup DOMAIN users |->
                       IF k \in DOMAIN users THEN users[k] ELSE allUsers[k]]
    /\ repos' = [repos EXCEPT ![ridx].pulses = pulses, ![ridx].start = startGraphs]
    /\ ridx' = ridx + 1
    /\ mpc' = "generate"
    /\ UNCHANGED <<config, start, end, pulls, users, yearStart, weekStart, pulses, hits,
                   pc, err, arg, ret, startGraphs, clock>>

mainFinish ==
    /\ mpc = "generate"
    /\ ridx > Len(repos)
    /\ mpc' = "finished"
    /\ UNCHANGED <<config, start, end, pulls, users, yearStart, weekStart, pulses, hits,
                   pc, err, arg, ret, repos, startGraphs, ridx, clock, allUsers>>

(***************************************************************************)
(* Inputs.                                                                  *)
(***************************************************************************)
\* Graphs is <<>> for a null graphs.start, else one record: the day the
\* date string names and whether time.Parse accepts the string
DefaultConfig ==
    [Allowlist |-> <<>>, Low |-> 50, High |-> 500, Cooldown |-> 1, Graphs |-> <<>>]

\* main is not running: getPulses or prSizeWeight is called on its own
MainIdle ==
    /\ repos = <<>>
    /\ startGraphs = 0
    /\ ridx = 0
    /\ mpc = "none"
    /\ clock = end - HoursPerDay
    /\ allUsers = << >>

StartDays ==
    {DaysBeforeYear(2018 + k) + o : k \in 1..NumYears, o \in (0 - BoundaryDays)..BoundaryDays}
    \cup {DaysBeforeYear(2018 + k) + o : k \in 1..NumYears, o \in {180, 187}}

StartInstants == {d * HoursPerDay + h : d \in StartDays, h \in {0, 13}}

Spans == {-25, -1, 0, 1, 7 * HoursPerDay, 14 * HoursPerDay, 15 * HoursPerDay,
          7 * SpanWeeks * HoursPerDay}

CallState ==
    /\ yearStart = 0
    /\ weekStart = 0
    /\ pulses = <<>>
    /\ hits = <<>>
    /\ pc = "call"
    /\ err = NoErr
    /\ arg = 0
    /\ ret = 0
    /\ MainIdle

\* a repository without pull requests, scanned over [start, end]
Init ==
    /\ config = DefaultConfig
    /\ start \in StartInstants
    /\ end \in {start + sp : sp \in Spans}
    /\ pulls = <<>>
    /\ users = getUsers(config, pulls, end - HoursPerDay)
    /\ CallState

Next == getPulsesEnter \/ getPulsesLoop

Spec == Init /\ [][Next]_vars

\* start days of the termination check lie within this many days of a 1 January
TermDays == 2

InitTerm ==
    /\ config = DefaultConfig
    /\ start \in {(DaysBeforeYear(2018 + k) + o) * HoursPerDay + h :
                      k \in 1..NumYears, o \in (0 - TermDays)..TermDays, h \in {0, 13}}
    /\ end \in {start + sp : sp \in Spans}
    /\ pulls = <<>>
    /\ users = getUsers(config, pulls, end - HoursPerDay)
    /\ CallState

\* getPulses is sequential code: a step that can be taken is taken
TermSpec == InitTerm /\ [][Next]_vars /\ WF_vars(Next)

(***************************************************************************)
(* One scan over the end of the 53-week year 2020 (windows 2020-W51,        *)
(* 2020-W53, 2021-W1, 2021-W3) of a repository with one or two pull         *)
(* requests.  As in main, the contributors are getUsers of the pull         *)
(* requests and the scan ends one day after now.                            *)
(***************************************************************************)
\* pull request instants: PrTicks steps of 3.5 days from Monday 2020-12-07
PrTicks == 17

ScanStart == (DaysBeforeYear(2021) - 16) * HoursPerDay + 13

ScanEnd == (DaysBeforeYear(2021) + 19) * HoursPerDay

PrInstants == {(DaysBeforeYear(2021) - 25) * HoursPerDay + 84 * k : k \in 0..PrTicks}

PrEntry(login, created, closed, merged, state, add, del) ==
    [Login |-> login, CreatedAt |-> created, ClosedAt |-> closed, MergedAt |-> merged,
     State |-> state, Additions |-> add, Deletions |-> del]

CreatedClosed == {cx \in PrInstants \X PrInstants : cx[1] <= cx[2]}

\* what the GitHub API returns: an open pull request has no close or merge
\* time, a merged one is closed when merged, a closed one was never merged
ProbePRs ==
    {PrEntry(l, c, Nil, Nil, "OPEN", 20, 10) : l \in {"alice", "bob"}, c \in PrInstants}
    \cup {PrEntry(l, cx[1], cx[2], cx[2], "MERGED", 20, 10) :
              l \in {"alice", "bob"}, cx \in CreatedClosed}
    \cup {PrEntry(l, cx[1], cx[2], Nil, "CLOSED", 20, 10) :
              l \in {"alice", "bob"}, cx \in CreatedClosed}

OtherPRs ==
    {PrEntry("alice", ScanStart - 1000, Nil, Nil, "OPEN", 400, 200),
     PrEntry("alice", ScanStart - 1000, ScanStart + 400, ScanStart + 400, "MERGED", 60, 40),
     PrEntry("bob", ScanStart + 100, ScanStart + 500, Nil, "CLOSED", 1, 0)}

PullLists ==
    {<<>>} \cup {<<p>> : p \in ProbePRs}
           \cup {<<p, o>> : p \in ProbePRs, o \in OtherPRs}
           \cup {<<o, p>> : p \in ProbePRs, o \in OtherPRs}

InitPulls ==
    /\ config \in {DefaultConfig, [DefaultConfig EXCEPT !.Allowlist = <<"alice">>]}
    /\ start = ScanStart
    /\ end = ScanEnd
    /\ pulls \in PullLists
    /\ users = getUsers(config, pulls, end - HoursPerDay)
    /\ CallState

SpecPulls == InitPulls /\ [][Next]_vars

(***************************************************************************)
(* The same scan, and one that ends on Monday 2021-01-18 12:00 (now is the  *)
(* Sunday before, so the last window starts after now), over one or two     *)
(* pull requests of tracked authors, of a renovate bot and of an author     *)
(* without login, in three sizes.                                           *)
(***************************************************************************)
NormEnd == (DaysBeforeYear(2021) + 17) * HoursPerDay + 12

NormLogins == {"alice", "bob", "renovate-bot", ""}

NormShapes ==
    {<<ScanStart - 150, Nil, Nil, "OPEN">>,
     <<ScanStart + 500, Nil, Nil, "OPEN">>,
     <<ScanStart - 150, ScanStart + 330, ScanStart + 330, "MERGED">>,
     <<ScanStart + 90, ScanStart + 600, Nil, "CLOSED">>}

NormPRs ==
    {PrEntry(l, sh[1], sh[2], sh[3], sh[4], n, 10) :
        l \in NormLogins, sh \in NormShapes, n \in {20, 50, 590}}

NormLists ==
    {<<>>} \cup {<<p>> : p \in NormPRs} \cup {<<p, q>> : p \in NormPRs, q \in NormPRs}

InitNorm ==
    /\ config \in {DefaultConfig,
                    [DefaultConfig EXCEPT !.Allowlist = <<"alice">>],
                    [DefaultConfig EXCEPT !.Allowlist = <<"bob", "renovate-bot">>]}
    /\ start = ScanStart
    /\ end \in {ScanEnd, NormEnd}
    /\ pulls \in NormLists
    /\ users = getUsers(config, pulls, end - HoursPerDay)
    /\ CallState

SpecNorm == InitNorm /\ [][Next]_vars

(***************************************************************************)
(* A run of main on Saturday 2021-01-16 23:00 over up to MaxRepos           *)
(* repositories created 100, 50 or 20 days before, with graphs.start null,  *)
(* 2020-11-02, a date after the scan or a string that is no date.           *)
(***************************************************************************)
MaxRepos == 2

MainNow == (DaysBeforeYear(2021) + 15) * HoursPerDay + 23

RepoChoices ==
    {[ok |-> TRUE, created |-> MainNow - a * HoursPerDay, prs |-> ps,
      pulses |-> <<>>, start |-> Nil] :
        a \in {100, 50, 20},
        ps \in {<<>>, <<PrEntry("alice", MainNow - 400, Nil, Nil, "OPEN", 580, 10)>>}}
    \cup {[ok |-> FALSE, created |-> 0, prs |-> <<>>, pulses |-> <<>>, start |-> Nil]}

RECURSIVE RepoLists(_)
RepoLists(n) ==
    IF n = 0 THEN {<<>>}
    ELSE RepoLists(n - 1)
         \cup {Append(l, c) : l \in {x \in RepoLists(n - 1) : Len(x) = n - 1}, c \in RepoChoices}

GraphsChoices ==
    {<<>>,
     <<[day |-> DaysBeforeYear(2021) - 60, ok |-> TRUE]>>,
     <<[day |-> DaysBeforeYear(2021) + 40, ok |-> TRUE]>>,
     <<[day |-> 0, ok |-> FALSE]>>}

InitMain ==
    /\ \E g \in GraphsChoices : config = [DefaultConfig EXCEPT !.Graphs = g]
    /\ repos \in RepoLists(MaxRepos)
    /\ clock = MainNow
    /\ startGraphs = clock
    /\ ridx = 1
    /\ mpc = "load"
    /\ allUsers = << >>
    /\ start = 0
    /\ end = 0
    /\ pulls = <<>>
    /\ users = << >>
    /\ yearStart = 0
    /\ weekStart = 0
    /\ pulses = <<>>
    /\ hits = <<>>
    /\ pc = "idle"
    /\ err = NoErr
    /\ arg = 0
    /\ ret = 0

NextMain ==
    \/ mainLoad
    \/ mainOverride
    \/ mainGenerate
    \/ getPulsesEnter
    \/ getPulsesLoop
    \/ mainStore
    \/ mainFinish

SpecMain == InitMain /\ [][NextMain]_vars

(***************************************************************************)
(* Calls of getUsers at MainNow with a cooldown of 0, 1 or 2 months, over   *)
(* up to MaxUserPulls pull requests whose instants lie 2000, 720, 719 or 0  *)
(* hours before now.                                                        *)
(***************************************************************************)
MaxUserPulls == 3

UserInstants == {MainNow - h : h \in {2000, 720, 719, 0}}

UserSpans == {cx \in UserInstants \X UserInstants : cx[1] <= cx[2]}

UserPRs ==
    {PrEntry("alice", c, Nil, Nil, "OPEN", 1, 1) : c \in {MainNow - 2000, MainNow}}
    \cup {PrEntry("alice", cx[1], cx[2], cx[2], "MERGED", 1, 1) : cx \in UserSpans}
    \cup {PrEntry("bob", MainNow - 2000, MainNow - 720, Nil, "CLOSED", 1, 1),
          PrEntry("renovate-bot", MainNow - 2000, MainNow - 100, MainNow - 100, "MERGED", 1, 1),
          PrEntry("", MainNow - 2000, Nil, Nil, "OPEN", 1, 1)}

RECURSIVE UserLists(_)
UserLists(n) ==
    IF n = 0 THEN {<<>>}
    ELSE UserLists(n - 1)
         \cup {Append(l, p) : l \in {x \in UserLists(n - 1) : Len(x) = n - 1}, p \in UserPRs}

InitUsers ==
    /\ \E cd \in {0, 1, 2} : config = [DefaultConfig EXCEPT !.Cooldown = cd]
    /\ pulls \in UserLists(MaxUserPulls)
    /\ clock = MainNow
    /\ users = << >>
    /\ arg = 1
    /\ ret = << >>
    /\ pc = "users"
    /\ start = 0
    /\ end = 0
    /\ yearStart = 0
    /\ weekStart = 0
    /\ pulses = <<>>
    /\ hits = <<>>
    /\ err = NoErr
    /\ repos = <<>>
    /\ startGraphs = 0
    /\ ridx = 0
    /\ mpc = "none"
    /\ allUsers = << >>

SpecUsers == InitUsers /\ [][getUsersStep \/ getUsersReturn]_vars

(***************************************************************************)
(* Both variants of the normalised values, with the default thresholds of   *)
(* the earlier one, over up to MaxWindowPulls classified pull requests and  *)
(* 0 to 2 contributors.                                                     *)
(***************************************************************************)
MaxWindowPulls == 3

WindowPulls ==
    {[Merged |-> FALSE, Closed |-> FALSE, Open |-> TRUE, Lines |-> n] :
        n \in {30, 50, 60, 500, 600}}
    \cup {[Merged |-> TRUE, Closed |-> FALSE, Open |-> FALSE, Lines |-> n] :
        n \in {30, 50, 60, 500, 600}}
    \cup {[Merged |-> FALSE, Closed |-> TRUE, Open |-> FALSE, Lines |-> 600]}

RECURSIVE WindowLists(_)
WindowLists(n) ==
    IF n = 0 THEN {<<>>}
    ELSE WindowLists(n - 1)
         \cup {Append(l, p) : l \in {x \in WindowLists(n - 1) : Len(x) = n - 1},
                               p \in WindowPulls}

InitCompare ==
    /\ config = [DefaultConfig EXCEPT !.Low = pr_low, !.High = pr_high]
    /\ \E pl \in WindowLists(MaxWindowPulls) : \E con \in 0..2 : arg = [pl |-> pl, con |-> con]
    /\ ret = 0
    /\ pc = "norm"
    /\ start = 0
    /\ end = 0
    /\ pulls = <<>>
    /\ users = << >>
    /\ yearStart = 0
    /\ weekStart = 0
    /\ pulses = <<>>
    /\ hits = <<>>
    /\ err = NoErr
    /\ MainIdle

SpecCompare == InitCompare /\ [][normCall]_vars

(***************************************************************************)
(* Calls of prSizeWeight over sizes and thresholds around the defaults and  *)
(* around 2^24, where float32 stops holding every integer.                  *)
(***************************************************************************)
\* sizes 0 .. MaxSmallLines next to the sizes around the thresholds
MaxSmallLines == 3

LineCounts ==
    (0..MaxSmallLines) \cup {49, 50, 51, 499, 500, 501}
    \cup {16777215, 16777216, 16777217, 16777218, 16777219}

Thresholds ==
    {<<50, 500>>, <<0, 0>>, <<50, 50>>, <<2, 3>>, <<500, 16777216>>, <<16777216, 16777218>>}

InitWeight ==
    /\ \E th \in Thresholds : config = [DefaultConfig EXCEPT !.Low = th[1], !.High = th[2]]
    /\ arg \in LineCounts
    /\ ret = 0
    /\ pc = "weight"
    /\ start = 0
    /\ end = 0
    /\ pulls = <<>>
    /\ users = getUsers(config, pulls, end - HoursPerDay)
    /\ yearStart = 0
    /\ weekStart = 0
    /\ pulses = <<>>
    /\ hits = <<>>
    /\ err = NoErr
    /\ MainIdle

SpecWeight == InitWeight /\ [][prSizeWeightCall]_vars

(***************************************************************************)
(* Properties of the window generator.                                      *)
(***************************************************************************)
Week == 7 * HoursPerDay

RECURSIVE SumDays(_, _, _)
SumDays(ps, i, j) == IF i > j THEN 0 ELSE ps[i].Days + SumDays(ps, i + 1, j)

\* C1: the emitted windows are contiguous and non-overlapping: each window
\* ends where the next one starts, every window ends after it starts, and a
\* later window never starts before an earlier one ends.
C1_Contiguous ==
    /\ \A i \in 1..Len(pulses) : pulses[i].Start < pulses[i].End
    /\ \A i \in 1..(Len(pulses) - 1) : pulses[i].End = pulses[i + 1].Start
    /\ \A i, j \in 1..Len(pulses) : i < j => pulses[i].End <= pulses[j].Start

\* one run that crossed the end of a 52-week and of a 53-week ISO year
C1_Witness ==
    /\ \E i \in 1..(Len(pulses) - 1) :
          /\ ISOWeek(pulses[i].Start) = <<2019, 51>>
          /\ ISOWeek(pulses[i + 1].Start) = <<2020, 1>>
    /\ \E i \in 1..(Len(pulses) - 1) :
          /\ ISOWeek(pulses[i].Start) = <<2020, 53>>
          /\ ISOWeek(pulses[i + 1].Start) = <<2021, 1>>

\* C2: the cursor always holds an odd week between 1 and the number of ISO
\* weeks of its year, and every emitted window starts on Monday 00:00 of an
\* odd ISO week.
C2_OddWeeks ==
    /\ pc \in {"loop", "done"} =>
          /\ weekStart % 2 = 1
          /\ 1 <= weekStart
          /\ weekStart <= isoWeeks(yearStart)
    /\ \A i \in 1..Len(pulses) :
          /\ pulses[i].Start % Week = 0
          /\ ISOWeek(pulses[i].Start)[2] % 2 = 1

\* start in an even week, and the cursor has rolled over to week 1 of the
\* year after a 53-week year
C2_Witness ==
    /\ pc = "loop"
    /\ ISOWeek(start)[2] % 2 = 0
    /\ yearStart = 2021
    /\ weekStart = 1
    /\ Len(pulses) > 0
    /\ ISOWeek(pulses[Len(pulses)].Start) = <<2020, 53>>

\* C3: the first emitted window is the pulse that contains start.
C3_FirstContainsStart ==
    Len(pulses) >= 1 => (pulses[1].Start <= start /\ start < pulses[1].End)

\* start lies in the days of January that belong to week 53 of the ISO year before
C3_Witness ==
    /\ Len(pulses) >= 1
    /\ ISOWeek(start) = <<2020, 53>>
    /\ YearOfDay(start \div HoursPerDay) = 2021

\* C4: the windows from week 1 of an ISO year up to week 1 of the next one
\* have Days that sum to 7 times the number of ISO weeks of the year, and
\* Days is the number of days between Start and End.
C4_YearSum ==
    /\ \A i \in 1..Len(pulses) :
          pulses[i].Days * HoursPerDay = pulses[i].End - pulses[i].Start
    /\ \A i, j \in 1..Len(pulses) :
          (/\ i < j
           /\ ISOWeek(pulses[i].Start)[2] = 1
           /\ ISOWeek(pulses[j].Start) = <<ISOWeek(pulses[i].Start)[1] + 1, 1>>)
          => SumDays(pulses, i, j - 1) = 7 * isoWeeks(ISOWeek(pulses[i].Start)[1])

\* a run that holds the whole 53-week year 2020 (371 days) and another that
\* holds a whole 52-week year is reached as well; this one is the 53-week run
C4_Witness ==
    \E i, j \in 1..Len(pulses) :
        /\ ISOWeek(pulses[i].Start) = <<2020, 1>>
        /\ ISOWeek(pulses[j].Start) = <<2021, 1>>
        /\ SumDays(pulses, i, j - 1) = 371

\* C5: for start <= end the loop ends, with at least one window; every
\* emitted window starts at or before end, the window after the last one
\* starts strictly after end, and the last window keeps its full length.
C5Final ==
    /\ Len(pulses) >= 1
    /\ \A i \in 1..Len(pulses) : pulses[i].Start <= end
    /\ StartTime(yearStart, weekStart) > end
    /\ pulses[Len(pulses)].End = StartTime(yearStart, weekStart)
    /\ pulses[Len(pulses)].End - pulses[Len(pulses)].Start \in {Week, 2 * Week}

C5_Terminates ==
    /\ [](pc = "done" => C5Final)
    /\ [](pc = "loop" => (\A i \in 1..Len(pulses) : pulses[i].Start <= end))
    /\ ((pc = "call" /\ start <= end) ~> (pc = "done"))

\* the run is over, its last window starts exactly at end and ends after end
C5_Witness ==
    /\ pc = "done"
    /\ pulses[Len(pulses)].Start = end
    /\ pulses[Len(pulses)].End > end
    /\ Len(pulses) > 1

\* C6: getPulses panics exactly when end is before start, with no window
\* emitted, and the panic of isoWeekToPulseStart is never raised.
C6_FailsIffEndBeforeStart ==
    /\ pc # "call" => ((pc = "panic") <=> (end < start))
    /\ pc = "panic" => (err = ErrEnd /\ pulses = <<>>)
    /\ err # ErrWeek

C6_Witness ==
    /\ pc = "panic"
    /\ end < start
    /\ ISOWeek(start)[2] = 1

(***************************************************************************)
(* Properties of the classifier.                                            *)
(***************************************************************************)
\* the windows in which entry k of pulls was classified
WindowsOf(k) == {i \in 1..Len(hits) : hits[i][k] # <<>>}

Terminal(p) == p.State # "OPEN" /\ p.ClosedAt # Nil

OpenPr(p) == p.State = "OPEN" /\ p.ClosedAt = Nil

\* C7: a terminal pull request with a close time is classified in at most
\* one window of the run, and only in a window that holds its close time.
C7_TerminalOnce ==
    \A k \in 1..Len(pulls) :
        Terminal(pulls[k]) =>
            /\ Cardinality(WindowsOf(k)) <= 1
            /\ \A i \in WindowsOf(k) :
                  /\ pulses[i].Start <= pulls[k].ClosedAt
                  /\ pulls[k].ClosedAt < pulses[i].End
                  /\ ~hits[i][k][1].Open
                  /\ hits[i][k][1].Merged = (pulls[k].MergedAt # Nil)
                  /\ hits[i][k][1].Closed = (pulls[k].MergedAt = Nil)

\* the scan is over; a pull request created before the scan and closed at
\* the very start of the 7-day window 2020-W53 is classified there, next
\* to another pull request
C7_Witness ==
    /\ pc = "done"
    /\ Len(pulses) = 4
    /\ Len(pulls) = 2
    /\ Terminal(pulls[1])
    /\ pulls[1].CreatedAt < pulses[1].Start
    /\ pulls[1].ClosedAt = pulses[2].Start
    /\ WindowsOf(1) = {2}

\* C8: an open pull request of an allowlisted author is classified open in
\* every window that ends after its creation and in no other window, so it
\* appears in all the windows from the first such window to the last one.
C8_OpenEveryWindow ==
    \A k \in 1..Len(pulls) :
        (OpenPr(pulls[k]) /\ allowlistedUser(config, pulls[k].Login)) =>
            /\ \A i \in 1..Len(pulses) :
                  IF pulls[k].CreatedAt < pulses[i].End
                  THEN hits[i][k] = <<[Merged |-> FALSE, Closed |-> FALSE, Open |-> TRUE,
                                       Lines |-> pulls[k].Additions + pulls[k].Deletions]>>
                  ELSE hits[i][k] = <<>>
            /\ \A i \in WindowsOf(k) : \A j \in i..Len(pulses) : j \in WindowsOf(k)
            /\ \A i \in 1..Len(pulses) :
                  (pulses[i].Start <= pulls[k].CreatedAt /\ pulls[k].CreatedAt < pulses[i].End)
                  => Cardinality(WindowsOf(k)) = Len(pulses) - i + 1

\* the scan is over; an open pull request created inside the third window
\* appears in the last two of the four windows
C8_Witness ==
    /\ pc = "done"
    /\ Len(pulses) = 4
    /\ Len(pulls) = 2
    /\ config.Allowlist = <<"alice">>
    /\ OpenPr(pulls[2])
    /\ pulls[2].CreatedAt > pulses[3].Start
    /\ WindowsOf(2) = {3, 4}

\* the pull requests of allowlisted authors that were open at instant t
OpenAt(t) ==
    {k \in 1..Len(pulls) :
        /\ allowlistedUser(config, pulls[k].Login)
        /\ pulls[k].CreatedAt < t
        /\ ~(pulls[k].ClosedAt # Nil /\ pulls[k].ClosedAt < t)}

\* C9: PrOpen of a window is the number of pull requests of allowlisted
\* authors that were created before the end of the window and not closed
\* before it, those closed or merged in a later window included.
C9_OpenAtEndOfPulse ==
    \A i \in 1..Len(pulses) : pulses[i].PrOpen = Cardinality(OpenAt(pulses[i].End))

\* C10: prSizeWeight is 1 for a size up to low, 2 for a size above low and
\* up to high, 3 for a size above high.
C10_WeightTiers ==
    (pc = "done" /\ config.Low <= config.High) =>
        ret = (IF arg <= config.Low THEN 1 ELSE IF arg <= config.High THEN 2 ELSE 3)

(***************************************************************************)
(* Properties of the metrics.                                               *)
(***************************************************************************)
\* the tracked, allowlisted logins whose interval overlaps window i
ActiveIn(i) ==
    {l \in DOMAIN users :
        /\ allowlistedUser(config, l)
        /\ users[l].Start < pulses[i].End
        /\ users[l].End >= pulses[i].Start}

\* the entries of pulls classified in window i as open (cat = "Open") or merged
InCategory(i, cat) ==
    {k \in 1..Len(pulls) :
        /\ hits[i][k] # <<>>
        /\ IF cat = "Open" THEN hits[i][k][1].Open ELSE hits[i][k][1].Merged}

RECURSIVE SumWeights(_, _)
SumWeights(i, ks) ==
    IF ks = {} THEN 0
    ELSE LET k == CHOOSE x \in ks : TRUE
         IN  prSizeWeight(config, F32(hits[i][k][1].Lines)) + SumWeights(i, ks \ {k})

Quotient(n, con) == IF con = 0 THEN [num |-> 0, den |-> 1] ELSE [num |-> n, den |-> con]

\* C11: in every window PrOpenNorm and PrMergedNorm are the sum of the size
\* weights of the pull requests classified open, resp. merged, over the
\* number of active contributors, and 0 when there is no contributor; the
\* divisor is never 0.
C11_NormIsWeightOverContributors ==
    \A i \in 1..Len(pulses) :
        /\ pulses[i].Contributors = Cardinality(ActiveIn(i))
        /\ pulses[i].PrOpenNorm.den # 0
        /\ pulses[i].PrMergedNorm.den # 0
        /\ pulses[i].PrOpenNorm =
              Quotient(SumWeights(i, InCategory(i, "Open")), pulses[i].Contributors)
        /\ pulses[i].PrMergedNorm =
              Quotient(SumWeights(i, InCategory(i, "Merged")), pulses[i].Contributors)

\* the scan is over; its last window has open pull requests and no
\* contributor, an earlier one has two contributors and open weights 3 + 1
C11_Witness ==
    /\ pc = "done"
    /\ \E i \in 1..Len(pulses) :
          /\ pulses[i].Contributors = 0
          /\ pulses[i].PrOpen = 2
          /\ pulses[i].PrOpenNorm = [num |-> 0, den |-> 1]
    /\ \E i \in 1..Len(pulses) :
          /\ pulses[i].Contributors = 2
          /\ pulses[i].PrOpenNorm = [num |-> 4, den |-> 2]

\* the login is one the configuration tracks
Listed(l) ==
    config.Allowlist = <<>> \/ l \in {config.Allowlist[j] : j \in 1..Len(config.Allowlist)}

\* the classification of pull request p in window [s, e) when its author is tracked
Selected(p, s, e) ==
    IF p.State = "OPEN"
    THEN IF p.CreatedAt < e
         THEN <<[Merged |-> FALSE, Closed |-> FALSE, Open |-> TRUE,
                 Lines |-> p.Additions + p.Deletions]>>
         ELSE <<>>
    ELSE IF p.CreatedAt < e /\ s <= p.ClosedAt /\ p.ClosedAt < e
         THEN <<[Merged |-> p.MergedAt # Nil, Closed |-> p.MergedAt = Nil, Open |-> FALSE,
                 Lines |-> p.Additions + p.Deletions]>>
         ELSE <<>>

\* the contributor count of window i, over the logins getUsers tracks
CountsListedOnly(i) ==
    pulses[i].Contributors =
        Cardinality({l \in DOMAIN users :
                        Listed(l) /\ users[l].Start < pulses[i].End
                                  /\ users[l].End >= pulses[i].Start})

\* the raw values of window i count the classified pull requests
CountsClassified(i) ==
    /\ pulses[i].PrOpen = Cardinality(InCategory(i, "Open"))
    /\ pulses[i].PrMerged = Cardinality(InCategory(i, "Merged"))

\* C12 as stated: a login absent from a non-empty allowlist is left out of
\* the contributor counts only, its pull requests being classified and
\* counted like those of any author; with an empty allowlist every login is
\* a contributor and has its pull requests classified.
C12_ExcludedFromContributorsOnly ==
    \A i \in 1..Len(pulses) :
        /\ CountsListedOnly(i)
        /\ CountsClassified(i)
        /\ \A k \in 1..Len(pulls) :
              /\ hits[i][k] = Selected(pulls[k], pulses[i].Start, pulses[i].End)
              /\ config.Allowlist = <<>> => pulls[k].Login \in DOMAIN users

\* C12 amended: a login absent from a non-empty allowlist is left out of the
\* contributor counts and its pull requests are classified in no window;
\* the pull requests of every other login are classified by the selection
\* rule and counted in the open and merged values; with an empty allowlist
\* every login but the empty one and the renovate ones is tracked as a
\* contributor.
C12_ExcludedEverywhere ==
    \A i \in 1..Len(pulses) :
        /\ CountsListedOnly(i)
        /\ CountsClassified(i)
        /\ \A k \in 1..Len(pulls) :
              /\ hits[i][k] = IF Listed(pulls[k].Login)
                              THEN Selected(pulls[k], pulses[i].Start, pulses[i].End)
                              ELSE <<>>
              /\ (pulls[k].Login # "" /\ ~HasPrefixRenovate(pulls[k].Login))
                    => pulls[k].Login \in DOMAIN users

\* the scan is over under the allowlist <<"alice">>: the open pull request
\* of bob is in no window and bob in no contributor count, the open pull
\* request of alice is counted
C12_Witness ==
    /\ pc = "done"
    /\ config.Allowlist = <<"alice">>
    /\ Len(pulls) = 2
    /\ pulls[1].Login = "bob" /\ OpenPr(pulls[1])
    /\ pulls[2].Login = "alice" /\ OpenPr(pulls[2])
    /\ WindowsOf(1) = {}
    /\ WindowsOf(2) # {}
    /\ \E i \in 1..Len(pulses) : pulses[i].Contributors = 1 /\ pulses[i].PrOpen = 1

(***************************************************************************)
(* Properties of the alignment across repositories.                         *)
(***************************************************************************)
\* the repositories whose pulses main has stored
Stored == IF mpc \in {"generate", "pulses", "finished"} THEN 1..(ridx - 1) ELSE {}

Min(S) == CHOOSE x \in S : \A y \in S : x <= y

\* the configured start, else the earliest creation instant of all repositories
SharedStart ==
    IF config.Graphs # <<>> THEN config.Graphs[1].day * HoursPerDay
    ELSE Min({repos[a].created : a \in 1..Len(repos)})

\* C13: every repository's windows are generated from the one shared start
\* (the configured date, else the earliest creation instant of all
\* repositories), so any two repositories have the same Start and End at
\* every index both have, whatever their own creation dates and pull requests.
C13_SharedStart ==
    /\ \A a \in Stored :
          /\ repos[a].start = SharedStart
          /\ repos[a].pulses # <<>>
          /\ repos[a].pulses[1].Start <= SharedStart
          /\ SharedStart < repos[a].pulses[1].End
    /\ \A a, b \in Stored :
          \A i \in 1..Len(repos[a].pulses) :
              i <= Len(repos[b].pulses) =>
                  /\ repos[a].pulses[i].Start = repos[b].pulses[i].Start
                  /\ repos[a].pulses[i].End = repos[b].pulses[i].End

\* main has finished over two repositories with different creation dates,
\* pull requests and numbers of windows, the later-created one read first,
\* and no configured start
C13_Witness ==
    /\ mpc = "finished"
    /\ config.Graphs = <<>>
    /\ Len(repos) = 2
    /\ repos[1].created > repos[2].created
    /\ repos[1].prs # repos[2].prs
    /\ Len(repos[1].pulses) < Len(repos[2].pulses)
    /\ repos[1].pulses[1].End <= repos[1].created

(***************************************************************************)
(* Properties of the contributor intervals.                                 *)
(***************************************************************************)
SpanEnd(p) ==
    IF p.MergedAt # Nil THEN p.MergedAt ELSE IF p.ClosedAt # Nil THEN p.ClosedAt ELSE clock

\* the pull requests of login l that getUsers has processed
Processed(l) == {k \in 1..(arg - 1) : pulls[k].Login = l}

Max(S) == CHOOSE x \in S : \A y \in S : x >= y

UsersCover ==
    pc \in {"users", "done"} =>
        \A l \in DOMAIN users :
            /\ Processed(l) # {}
            /\ users[l].Start <= users[l].End
            /\ users[l].End <= clock
            /\ \A k \in Processed(l) :
                  /\ users[l].Start <= pulls[k].CreatedAt
                  /\ SpanEnd(pulls[k]) <= users[l].End
            /\ users[l].End \in {Max({SpanEnd(pulls[k]) : k \in Processed(l)}), clock}
            /\ (clock - users[l].End < config.Cooldown * 720) => users[l].End = clock

EndOnlyLater ==
    \A l \in DOMAIN users :
        /\ l \in DOMAIN users'
        /\ users'[l].End >= users[l].End
        /\ users'[l].Start <= users[l].Start

\* C14: the interval of every login of the result covers the span of each
\* of its pull requests and ends at or before now, so Start <= End; End is
\* the latest span end or, by the cooldown promotion, now; no iteration
\* moves an End earlier or a Start later.
C14_IntervalCovers == [] UsersCover /\ [][EndOnlyLater]_vars

\* getUsers has returned; the later pull request of alice was processed
\* first, the interval starts with the earlier one and its End, 719 hours
\* before now, was promoted to now
C14_Witness ==
    /\ pc = "done"
    /\ config.Cooldown = 1
    /\ Len(pulls) = 3
    /\ pulls[1].Login = "alice" /\ pulls[2].Login = "alice"
    /\ pulls[1].MergedAt = clock - 719
    /\ pulls[2].MergedAt = clock - 720
    /\ pulls[2].CreatedAt < pulls[1].CreatedAt
    /\ pulls[3].Login = "renovate-bot"
    /\ DOMAIN ret = {"alice"}
    /\ ret["alice"] = [Start |-> pulls[2].CreatedAt, End |-> clock]

(***************************************************************************)
(* Properties of the two variants of the normalisation.                     *)
(***************************************************************************)
\* the size tiers of the pull requests of a category of arg.pl
Tiers(cat) ==
    {prSizeWeight(config, F32(arg.pl[k].Lines)) :
        k \in {j \in 1..Len(arg.pl) :
                 IF cat = "Open" THEN arg.pl[j].Open ELSE arg.pl[j].Merged}}

Straddles(cat) == Cardinality(Tiers(cat)) > 1

\* two quotients are the same number
SameValue(a, b) == a.num * b.den = b.num * a.den

\* C15 as stated: with contributors, the two variants differ whenever the
\* sizes of the category straddle a threshold and agree when they do not.
C15_DifferIffStraddle ==
    (pc = "done" /\ arg.con # 0) =>
        /\ Straddles("Open") <=> ~SameValue(ret.oldOpen, ret.newOpen)
        /\ Straddles("Merged") <=> ~SameValue(ret.oldMerged, ret.newMerged)

\* C15 amended: the two variants agree whenever the pull requests of the
\* category are all in one tier, or there is none or no contributor; they
\* differ only when the sizes straddle a threshold.
C15_DifferOnlyIfStraddle ==
    pc = "done" =>
        /\ ~SameValue(ret.oldOpen, ret.newOpen) => (Straddles("Open") /\ arg.con # 0)
        /\ ~SameValue(ret.oldMerged, ret.newMerged) => (Straddles("Merged") /\ arg.con # 0)

\* open sizes 50 and 60 with one contributor: the earlier variant gives
\* 2 x 2, the current one 1 + 2; the merged ones, both in tier 3, agree on 6
C15_Witness ==
    /\ pc = "done"
    /\ arg.con = 1
    /\ Straddles("Open")
    /\ ret.oldOpen.num = 4
    /\ ret.newOpen.num = 3
    /\ Tiers("Merged") = {3}
    /\ ret.oldMerged = ret.newMerged
    /\ ret.newMerged.num = 3

====
